---- MODULE Spec2Model ----
(***************************************************************************)
(* A model of the chess rules engine: ClassicBoard (grid, turn, history,   *)
(* captures), the movement strategies, StandardRuleSet (strategy bindings, *)
(* castling candidates) and ChessEngine (move quota).                      *)
(*                                                                         *)
(* JavaScript objects with optional fields (Piece, Move) are functions     *)
(* whose domain is the set of fields that are present: {} is the function  *)
(* with the empty domain, and  p.type === undefined  is                    *)
(* "type" \notin DOMAIN p.                                                 *)
(***************************************************************************)
EXTENDS Integers, Sequences, FiniteSets, TLC

VARIABLES
    state,              \* ClassicBoard.state : BoardState
    moveLimitValue,     \* ChessEngine.moveLimitValue
    movesLeft,          \* ChessEngine.movesLeft
    strategies,         \* StandardRuleSet.strategies
    originalStrategies, \* StandardRuleSet.originalStrategies
    lastCall,           \* the last operation invoked on the engine, with its arguments
    applied,            \* history: calls of Board.move that returned true
    sinceLimit,         \* history: moves applied since the quota was last configured
    turnAtLimit,        \* history: whose turn it was when the quota was last configured
    returned            \* the BoardState last returned by getBoardState, as its caller holds it

vars == <<state, moveLimitValue, movesLeft, strategies, originalStrategies,
          lastCall, applied, sinceLimit, turnAtLimit, returned>>

---------------------------------------------------------------------------
\* Bounds of the model.

\* Engine.move is offered while fewer than MaxMoves moves are in the history
\* (MaxBoardMoves, MaxQuotaMoves, MaxRuleMoves, MaxQueryMoves under the board,
\* quota, rule-set and query specifications).
MaxMoves == 3
MaxBoardMoves == 4
MaxQuotaMoves == 6
MaxRuleMoves == 2
MaxQueryMoves == 2
MaxStrategyMoves == 3
MaxCopyMoves == 2
MaxCopyEdits == 2
\* setMoveLimit is called with the limits 0..MaxLimit.
MaxLimit == 3

---------------------------------------------------------------------------
\* Data types (type.ts).

PieceType == {"pawn", "rook", "knight", "bishop", "queen", "king"}
PlayerColor == {"white", "black"}

\* The object literal {} : no field is present.
EmptyObj == [f \in {} |-> "undefined"]

Piece(type, color, hasMoved) == [type |-> type, color |-> color, hasMoved |-> hasMoved]

\* String.charCodeAt(0) and String.fromCharCode on the file letters.
Files == <<"a", "b", "c", "d", "e", "f", "g", "h">>
charCodeAt(ch) == 96 + (CHOOSE i \in 1..8 : Files[i] = ch)
fromCharCode(code) == Files[code - 96]

Pos(x, y) == [x |-> x, y |-> y]
Position == {Pos(Files[i], y) : i \in 1..8, y \in 1..8}

---------------------------------------------------------------------------
\* JavaScript primitives used by the code.

\* ToBoolean of an object reference, as in  if (!piece)  and  if (targetPiece):
\* every object is truthy, the empty object {} included.
ToBoolean(obj) == TRUE

\* obj.field, with "undefined" for a field that is not present.
Get(obj, field) == IF field \in DOMAIN obj THEN obj[field] ELSE "undefined"

\* Mutant: the hasMoved flag is not consulted.
NotHasMoved_Unchecked(obj) == TRUE

\* !obj.hasMoved : true when the field is absent or false.
NotHasMoved(obj) == IF "hasMoved" \in DOMAIN obj THEN ~obj.hasMoved ELSE TRUE

\* Mutant: the piece is copied without setting hasMoved.
SpreadHasMoved_NotSet(piece) == piece

\* { ...piece, hasMoved: true }
SpreadHasMoved(piece) ==
    [f \in (DOMAIN piece) \cup {"hasMoved"} |->
        IF f = "hasMoved" THEN TRUE ELSE piece[f]]

---------------------------------------------------------------------------
\* ClassicBoard.

posToIndices(position) ==
    [row |-> 8 - position.y, col |-> charCodeAt(position.x) - charCodeAt("a")]

indicesToPosition(row, col) ==
    [x |-> fromCharCode(charCodeAt("a") + col), y |-> 8 - row]

\* Mutant: king and queen change places.
BackRank_KingQueenSwapped ==
    <<"rook", "knight", "bishop", "king", "queen", "bishop", "knight", "rook">>

BackRank == <<"rook", "knight", "bishop", "queen", "king", "bishop", "knight", "rook">>

createInitialBoard ==
    [grid |-> [row \in 0..7 |-> [col \in 0..7 |->
                 CASE row = 0 -> Piece(BackRank[col + 1], "black", FALSE)
                   [] row = 1 -> Piece("pawn", "black", FALSE)
                   [] row = 6 -> Piece("pawn", "white", FALSE)
                   [] row = 7 -> Piece(BackRank[col + 1], "white", FALSE)
                   [] OTHER   -> EmptyObj]],
     turn |-> "white",
     moveHistory |-> <<>>,
     capturedPieces |-> <<>>]

\* Mutant: the turn is left as it is.
switchTurn_Keeps(s) == s

switchTurn(s) ==
    [s EXCEPT !.turn = IF s.turn = "white" THEN "black" ELSE "white"]

getCurrentTurn(s) == s.turn

getPiece(s, position) ==
    LET col == charCodeAt(position.x) - charCodeAt("a")
        row == 8 - position.y
    IN  s.grid[row][col]

\* Mutant: the returned grid holds the board's own row arrays.
getBoardState_SharesRows(s) ==
    [grid |-> s.grid, turn |-> s.turn, moveHistory |-> s.moveHistory,
     capturedPieces |-> s.capturedPieces, aliased |-> {"grid"}]

\* getBoardState(): the rows are copied with slice() and the two lists with
\* the spread operator, so the result holds the board's values in arrays of
\* its own. aliased names the arrays of the result that are the board's own
\* arrays: none.
getBoardState(s) ==
    [grid |-> s.grid, turn |-> s.turn, moveHistory |-> s.moveHistory,
     capturedPieces |-> s.capturedPieces, aliased |-> {}]

\* What the caller of getBoardState holds: nothing before the first call, then
\* the returned object and the number of writes the caller has made to it.
NoCopy == [edits |-> 0]
HasCopy(r) == "copy" \in DOMAIN r

\* The array a write goes to, and the write itself, on a BoardState b:
\* b.grid[row][col] = piece, b.moveHistory.push(move), b.moveHistory.pop(),
\* b.capturedPieces.push(piece), b.capturedPieces.pop().
ArrayOf(edit) ==
    CASE edit.kind = "setSquare" -> "grid"
      [] edit.kind \in {"pushHistory", "popHistory"} -> "moveHistory"
      [] edit.kind \in {"pushCaptured", "popCaptured"} -> "capturedPieces"

Pop(seq) == IF seq = <<>> THEN seq ELSE SubSeq(seq, 1, Len(seq) - 1)

Write(b, edit) ==
    CASE edit.kind = "setSquare" ->
           [b EXCEPT !.grid[edit.row][edit.col] = edit.piece]
      [] edit.kind = "pushHistory" ->
           [b EXCEPT !.moveHistory = Append(@, edit.move)]
      [] edit.kind = "popHistory" ->
           [b EXCEPT !.moveHistory = Pop(@)]
      [] edit.kind = "pushCaptured" ->
           [b EXCEPT !.capturedPieces = Append(@, edit.piece)]
      [] edit.kind = "popCaptured" ->
           [b EXCEPT !.capturedPieces = Pop(@)]

\* The arrays the returned object shares with the board show the board's
\* writes: Board.move changes grid rows and lists in place.
SyncCopy(r, s) ==
    IF ~HasCopy(r) THEN r
    ELSE [r EXCEPT
            !.copy.grid = IF "grid" \in r.copy.aliased THEN s.grid ELSE @,
            !.copy.moveHistory =
                IF "moveHistory" \in r.copy.aliased THEN s.moveHistory ELSE @,
            !.copy.capturedPieces =
                IF "capturedPieces" \in r.copy.aliased THEN s.capturedPieces ELSE @]

\* Mutant: Board.move without the push onto moveHistory.
BoardMove_NoHistoryPush(s, move) ==
    LET fromIndices == posToIndices(move.from)
        toIndices   == posToIndices(move.to)
        piece       == s.grid[fromIndices.row][fromIndices.col]
        targetPiece == s.grid[toIndices.row][toIndices.col]
        grid1 == [s.grid EXCEPT ![toIndices.row][toIndices.col] =
                                    SpreadHasMoved(piece)]
        grid2 == [grid1 EXCEPT ![fromIndices.row][fromIndices.col] = EmptyObj]
    IN  [ret |-> TRUE,
         state |-> switchTurn([grid |-> grid2,
                               turn |-> s.turn,
                               moveHistory |-> s.moveHistory,
                               capturedPieces |->
                                   Append(s.capturedPieces, targetPiece)])]

\* Board.move: the returned boolean (ret) and the board state it leaves.
BoardMove(s, move) ==
    LET fromIndices == posToIndices(move.from)
        toIndices   == posToIndices(move.to)
        piece       == s.grid[fromIndices.row][fromIndices.col]
    IN  IF ~ToBoolean(piece)
        THEN [ret |-> FALSE, state |-> s]
        ELSE
          LET targetPiece == s.grid[toIndices.row][toIndices.col]
              captured == IF ToBoolean(targetPiece)
                          THEN Append(s.capturedPieces, targetPiece)
                          ELSE s.capturedPieces
              grid1 == [s.grid EXCEPT ![toIndices.row][toIndices.col] =
                                          SpreadHasMoved(piece)]
              grid2 == [grid1 EXCEPT ![fromIndices.row][fromIndices.col] = EmptyObj]
              pushed == [grid |-> grid2,
                         turn |-> s.turn,
                         moveHistory |-> Append(s.moveHistory, move),
                         capturedPieces |-> captured]
          IN  [ret |-> TRUE, state |-> switchTurn(pushed)]

---------------------------------------------------------------------------
\* Movement strategies (strategies.ts). A strategy reads the board state s and
\* returns the sequence of candidate moves in the order the code pushes them.

inBounds(row, col) == row >= 0 /\ row < 8 /\ col >= 0 /\ col < 8

getPieceAt(s, row, col) == s.grid[row][col]

isEmpty(s, row, col) == "type" \notin DOMAIN getPieceAt(s, row, col)

\* Mutant: the color of the piece is not compared.
isOpponentPiece_AnyPiece(s, row, col, myColor) ==
    "type" \in DOMAIN getPieceAt(s, row, col)

isOpponentPiece(s, row, col, myColor) ==
    LET piece == getPieceAt(s, row, col)
    IN  "type" \in DOMAIN piece /\ Get(piece, "color") # myColor

\* { from, to }  and  { from, to, capture }
PlainMove(position, row, col) ==
    [from |-> position, to |-> indicesToPosition(row, col)]

CaptureMove(s, position, row, col) ==
    [from |-> position, to |-> indicesToPosition(row, col),
     capture |-> getPieceAt(s, row, col)]

Dir(dRow, dCol) == [dRow |-> dRow, dCol |-> dCol]

\* Mutant: the two-square advance is not nested in the one-square test.
PawnMoves_JumpsOver(piece, position, s) ==
    LET row == posToIndices(position).row
        col == posToIndices(position).col
        forward == IF Get(piece, "color") = "white" THEN -1 ELSE 1
        startRow == IF Get(piece, "color") = "white" THEN 6 ELSE 1
        oneStep == row + forward
        twoStep == row + 2 * forward
        advance ==
            (IF inBounds(oneStep, col) /\ isEmpty(s, oneStep, col)
             THEN <<PlainMove(position, oneStep, col)>> ELSE <<>>) \o
            (IF row = startRow /\ inBounds(twoStep, col) /\ isEmpty(s, twoStep, col)
             THEN <<PlainMove(position, twoStep, col)>> ELSE <<>>)
        diagonal(deltaCol) ==
            LET newCol == col + deltaCol
            IN  IF inBounds(oneStep, newCol)
                   /\ isOpponentPiece(s, oneStep, newCol, Get(piece, "color"))
                THEN <<CaptureMove(s, position, oneStep, newCol)>>
                ELSE <<>>
    IN  advance \o diagonal(-1) \o diagonal(1)

\* PawnStrategy.getPossibleMoves
PawnMoves(piece, position, s) ==
    LET row == posToIndices(position).row
        col == posToIndices(position).col
        forward == IF Get(piece, "color") = "white" THEN -1 ELSE 1
        startRow == IF Get(piece, "color") = "white" THEN 6 ELSE 1
        oneStep == row + forward
        twoStep == row + 2 * forward
        advance ==
            IF inBounds(oneStep, col) /\ isEmpty(s, oneStep, col)
            THEN <<PlainMove(position, oneStep, col)>> \o
                 (IF row = startRow /\ inBounds(twoStep, col) /\ isEmpty(s, twoStep, col)
                  THEN <<PlainMove(position, twoStep, col)>>
                  ELSE <<>>)
            ELSE <<>>
        diagonal(deltaCol) ==
            LET newCol == col + deltaCol
            IN  IF inBounds(oneStep, newCol)
                   /\ isOpponentPiece(s, oneStep, newCol, Get(piece, "color"))
                THEN <<CaptureMove(s, position, oneStep, newCol)>>
                ELSE <<>>
    IN  advance \o diagonal(-1) \o diagonal(1)

\* Mutant: the walk goes on behind an occupied square.
RECURSIVE Slide_NoBreak(_, _, _, _, _, _)
Slide_NoBreak(piece, position, s, r, c, d) ==
    IF ~inBounds(r, c) THEN <<>>
    ELSE (IF isEmpty(s, r, c)
          THEN <<PlainMove(position, r, c)>>
          ELSE IF isOpponentPiece(s, r, c, Get(piece, "color"))
               THEN <<CaptureMove(s, position, r, c)>>
               ELSE <<>>) \o
         Slide_NoBreak(piece, position, s, r + d.dRow, c + d.dCol, d)

\* The while loop of the rook and bishop strategies along one direction, from
\* square (r, c): empty squares are pushed and the walk goes on; the first
\* occupied square is pushed if it holds an opponent, and the walk stops.
RECURSIVE Slide(_, _, _, _, _, _)
Slide(piece, position, s, r, c, d) ==
    IF ~inBounds(r, c) THEN <<>>
    ELSE IF isEmpty(s, r, c)
         THEN <<PlainMove(position, r, c)>> \o
              Slide(piece, position, s, r + d.dRow, c + d.dCol, d)
         ELSE IF isOpponentPiece(s, r, c, Get(piece, "color"))
              THEN <<CaptureMove(s, position, r, c)>>
              ELSE <<>>

\* for (const { dRow, dCol } of directions) { ... }
RECURSIVE SlideAll(_, _, _, _, _)
SlideAll(piece, position, s, directions, i) ==
    IF i > Len(directions) THEN <<>>
    ELSE LET row == posToIndices(position).row
             col == posToIndices(position).col
             d == directions[i]
         IN  Slide(piece, position, s, row + d.dRow, col + d.dCol, d) \o
             SlideAll(piece, position, s, directions, i + 1)

RookDirections == <<Dir(-1, 0), Dir(1, 0), Dir(0, -1), Dir(0, 1)>>
BishopDirections == <<Dir(-1, -1), Dir(-1, 1), Dir(1, -1), Dir(1, 1)>>

\* RookStrategy.getPossibleMoves
RookMoves(piece, position, s) == SlideAll(piece, position, s, RookDirections, 1)

\* BishopStrategy.getPossibleMoves
BishopMoves(piece, position, s) == SlideAll(piece, position, s, BishopDirections, 1)

\* QueenStrategy.getPossibleMoves
QueenMoves(piece, position, s) ==
    RookMoves(piece, position, s) \o BishopMoves(piece, position, s)

\* The for loop of the knight and king strategies over their offsets.
RECURSIVE StepAll(_, _, _, _, _)
StepAll(piece, position, s, offsets, i) ==
    IF i > Len(offsets) THEN <<>>
    ELSE LET r == posToIndices(position).row + offsets[i].dRow
             c == posToIndices(position).col + offsets[i].dCol
             here == IF inBounds(r, c)
                     THEN IF isEmpty(s, r, c)
                          THEN <<PlainMove(position, r, c)>>
                          ELSE IF isOpponentPiece(s, r, c, Get(piece, "color"))
                               THEN <<CaptureMove(s, position, r, c)>>
                               ELSE <<>>
                     ELSE <<>>
         IN  here \o StepAll(piece, position, s, offsets, i + 1)

KnightOffsets ==
    <<Dir(-2, -1), Dir(-2, 1), Dir(-1, -2), Dir(-1, 2),
      Dir(1, -2), Dir(1, 2), Dir(2, -1), Dir(2, 1)>>

KingOffsets ==
    <<Dir(-1, -1), Dir(-1, 0), Dir(-1, 1), Dir(0, -1),
      Dir(0, 1), Dir(1, -1), Dir(1, 0), Dir(1, 1)>>

\* KnightStrategy.getPossibleMoves
KnightMoves(piece, position, s) == StepAll(piece, position, s, KnightOffsets, 1)

\* KingStrategy.getPossibleMoves
KingMoves(piece, position, s) == StepAll(piece, position, s, KingOffsets, 1)

\* SuperPawnStrategy.getPossibleMoves
SuperPawnMoves(piece, position, s) ==
    LET moves == PawnMoves(piece, position, s)
        row == posToIndices(position).row
        col == posToIndices(position).col
        forward == IF Get(piece, "color") = "white" THEN -1 ELSE 1
        threeStep == row + 3 * forward
        oneStep == row + forward
        twoStep == row + 2 * forward
    IN  IF /\ inBounds(threeStep, col)
           /\ isEmpty(s, oneStep, col)
           /\ isEmpty(s, twoStep, col)
           /\ isEmpty(s, threeStep, col)
        THEN Append(moves, PlainMove(position, threeStep, col))
        ELSE moves

\* The strategy objects, by class name, and strategy.getPossibleMoves(...).
MovementStrategy ==
    {"PawnStrategy", "RookStrategy", "KnightStrategy", "BishopStrategy",
     "QueenStrategy", "KingStrategy", "SuperPawnStrategy"}

getPossibleMoves(strategy, piece, position, s) ==
    CASE strategy = "PawnStrategy"      -> PawnMoves(piece, position, s)
      [] strategy = "RookStrategy"      -> RookMoves(piece, position, s)
      [] strategy = "KnightStrategy"    -> KnightMoves(piece, position, s)
      [] strategy = "BishopStrategy"    -> BishopMoves(piece, position, s)
      [] strategy = "QueenStrategy"     -> QueenMoves(piece, position, s)
      [] strategy = "KingStrategy"      -> KingMoves(piece, position, s)
      [] strategy = "SuperPawnStrategy" -> SuperPawnMoves(piece, position, s)

---------------------------------------------------------------------------
\* StandardRuleSet.

StandardStrategies ==
    [type \in PieceType |->
        CASE type = "pawn"   -> "PawnStrategy"
          [] type = "rook"   -> "RookStrategy"
          [] type = "knight" -> "KnightStrategy"
          [] type = "bishop" -> "BishopStrategy"
          [] type = "queen"  -> "QueenStrategy"
          [] type = "king"   -> "KingStrategy"]

getMovementStrategy(bound, type) == bound[type]

\* getSpecialMoves(board, position)
getSpecialMoves(s, position) ==
    LET piece == getPiece(s, position)
        homeRank == IF Get(piece, "color") = "white" THEN 1 ELSE 8
        colKing == charCodeAt(position.x) - charCodeAt("a")
        rookKingside == getPiece(s, Pos("h", homeRank))
        rookQueenside == getPiece(s, Pos("a", homeRank))
        squareAt(col) == Pos(fromCharCode(charCodeAt("a") + col), homeRank)
        kingsideClear ==
            \A col \in (colKing + 1)..6 : ~ToBoolean(getPiece(s, squareAt(col)))
        queensideClear ==
            \A col \in 1..(colKing - 1) : ~ToBoolean(getPiece(s, squareAt(col)))
        kingside ==
            IF /\ ToBoolean(rookKingside)
               /\ Get(rookKingside, "type") = "rook"
               /\ NotHasMoved(rookKingside)
               /\ kingsideClear
            THEN <<[from |-> position, to |-> Pos("g", homeRank), special |-> "castling"]>>
            ELSE <<>>
        queenside ==
            IF /\ ToBoolean(rookQueenside)
               /\ Get(rookQueenside, "type") = "rook"
               /\ NotHasMoved(rookQueenside)
               /\ queensideClear
            THEN <<[from |-> position, to |-> Pos("c", homeRank), special |-> "castling"]>>
            ELSE <<>>
    IN  IF ~ToBoolean(piece) THEN <<>>
        ELSE IF Get(piece, "type") = "king" /\ NotHasMoved(piece)
             THEN kingside \o queenside
             ELSE <<>>

---------------------------------------------------------------------------
\* StandardRuleSet: overriding and restoring a binding.

\* Mutant: strategies is the same object as originalStrategies (no copy at
\* construction), so an override writes through to the retained bindings.
overrideStrategy_Aliased(type, strategy) ==
    /\ strategies' = [strategies EXCEPT ![type] = strategy]
    /\ originalStrategies' = [originalStrategies EXCEPT ![type] = strategy]

\* overrideStrategy(type, strategy): the two maps after the call.
overrideStrategy(type, strategy) ==
    /\ strategies' = [strategies EXCEPT ![type] = strategy]
    /\ UNCHANGED originalStrategies

\* restoreStrategy(type)
restoreStrategy(type) ==
    /\ strategies' = [strategies EXCEPT ![type] = originalStrategies[type]]
    /\ UNCHANGED originalStrategies

\* Mutant: the rook's square is not looked at.
validateCastling_NoRookCheck(s, move) ==
    IF Get(move, "special") # "castling" THEN FALSE
    ELSE LET king == getPiece(s, move.from)
         IN  ~(~ToBoolean(king) \/ Get(king, "type") # "king" \/ ~NotHasMoved(king))

\* validateCastling(board, move)
validateCastling(s, move) ==
    IF Get(move, "special") # "castling" THEN FALSE
    ELSE LET king == getPiece(s, move.from)
         IN  IF ~ToBoolean(king) \/ Get(king, "type") # "king" \/ ~NotHasMoved(king)
             THEN FALSE
             ELSE LET isKingside == move.to.x = "g"
                      homeRank == IF Get(king, "color") = "white" THEN 1 ELSE 8
                      rookPosition == IF isKingside THEN Pos("h", homeRank)
                                                    ELSE Pos("a", homeRank)
                      rook == getPiece(s, rookPosition)
                  IN  IF ~ToBoolean(rook) \/ Get(rook, "type") # "rook"
                         \/ ~NotHasMoved(rook)
                      THEN FALSE
                      ELSE TRUE

---------------------------------------------------------------------------
\* ChessEngine.

\* Mutant: the standard strategy is used whatever is bound.
getLegalMoves_IgnoresBinding(s, bound, position) ==
    LET piece == getPiece(s, position)
    IN  IF ~ToBoolean(piece) \/ "type" \notin DOMAIN piece THEN <<>>
        ELSE LET strategy == getMovementStrategy(StandardStrategies, piece.type)
                 moves == getPossibleMoves(strategy, piece, position, s)
                 special == getSpecialMoves(s, position)
             IN  moves \o special

\* Engine.getLegalMoves(position), on board state s with the bindings bound.
getLegalMoves(s, bound, position) ==
    LET piece == getPiece(s, position)
    IN  IF ~ToBoolean(piece) \/ "type" \notin DOMAIN piece THEN <<>>
        ELSE LET strategy == getMovementStrategy(bound, piece.type)
                 moves == getPossibleMoves(strategy, piece, position, s)
                 special == getSpecialMoves(s, position)
             IN  moves \o special

\* Mutant: the same color keeps the turn while movesLeft >= 1.
MovesRemain_OffByOne == movesLeft >= 1

\* this.movesLeft > 1 : the turn's quota is not used up by this move.
MovesRemain == movesLeft > 1

\* Engine.move(move)
Move(move) ==
    LET currentPlayer == getCurrentTurn(state)
        r == BoardMove(state, move)
        moved == r.ret
    IN  /\ lastCall' = [op |-> "move", move |-> move, moved |-> moved]
        /\ IF ~moved
           THEN UNCHANGED <<state, movesLeft, applied, sinceLimit>>
           ELSE /\ applied' = applied + 1
                /\ sinceLimit' = sinceLimit + 1
                /\ IF moveLimitValue > 1
                   THEN IF MovesRemain
                        THEN /\ state' = [r.state EXCEPT !.turn = currentPlayer]
                             /\ movesLeft' = movesLeft - 1
                        ELSE /\ state' = r.state
                             /\ movesLeft' = moveLimitValue
                   ELSE /\ state' = r.state
                        /\ UNCHANGED movesLeft
        /\ returned' = SyncCopy(returned, state')
        /\ UNCHANGED <<moveLimitValue, strategies, originalStrategies, turnAtLimit>>

\* Engine.overrideMovementRule(pieceType, strategy)
overrideMovementRule(pieceType, strategy) ==
    /\ overrideStrategy(pieceType, strategy)
    /\ lastCall' = [op |-> "overrideStrategy", type |-> pieceType,
                    strategy |-> strategy]
    /\ UNCHANGED <<state, moveLimitValue, movesLeft, applied, sinceLimit, turnAtLimit,
                   returned>>

\* engine.ruleSet.restoreStrategy(type); the call record keeps the binding the
\* call replaced.
restoreMovementRule(pieceType) ==
    /\ restoreStrategy(pieceType)
    /\ lastCall' = [op |-> "restoreStrategy", type |-> pieceType,
                    replaced |-> strategies[pieceType]]
    /\ UNCHANGED <<state, moveLimitValue, movesLeft, applied, sinceLimit, turnAtLimit,
                   returned>>

\* Mutant: the query plays its first candidate on the board.
getLegalMovesCall_PlaysFirst(position) ==
    LET result == getLegalMoves(state, strategies, position)
    IN  /\ lastCall' = [op |-> "getLegalMoves", position |-> position,
                        result |-> result]
        /\ state' = IF result = <<>> THEN state
                    ELSE BoardMove(state, result[1]).state
        /\ UNCHANGED <<moveLimitValue, movesLeft, strategies,
                       originalStrategies, applied, sinceLimit, turnAtLimit,
                       returned>>

\* A call of Engine.getLegalMoves(position): the call record keeps the result.
getLegalMovesCall(position) ==
    /\ lastCall' = [op |-> "getLegalMoves", position |-> position,
                    result |-> getLegalMoves(state, strategies, position)]
    /\ UNCHANGED <<state, moveLimitValue, movesLeft, strategies,
                   originalStrategies, applied, sinceLimit, turnAtLimit,
                   returned>>

\* A call of engine.ruleSet.validateCastling(engine.board, move).
validateCastlingCall(move) ==
    /\ lastCall' = [op |-> "validateCastling", move |-> move,
                    result |-> validateCastling(state, move)]
    /\ UNCHANGED <<state, moveLimitValue, movesLeft, strategies,
                   originalStrategies, applied, sinceLimit, turnAtLimit,
                   returned>>

\* A call of engine.board.getBoardState(): the caller keeps the result.
getBoardStateCall ==
    /\ returned' = [copy |-> getBoardState(state), edits |-> returned.edits]
    /\ lastCall' = [op |-> "getBoardState"]
    /\ UNCHANGED <<state, moveLimitValue, movesLeft, strategies,
                   originalStrategies, applied, sinceLimit, turnAtLimit>>

\* The caller writes to the object getBoardState returned; the board sees the
\* write when the written array is one of its own.
editCopy(edit) ==
    /\ HasCopy(returned)
    /\ returned' = [copy |-> Write(returned.copy, edit),
                    edits |-> returned.edits + 1]
    /\ state' = IF ArrayOf(edit) \in returned.copy.aliased
                THEN Write(state, edit)
                ELSE state
    /\ lastCall' = [op |-> "editCopy", edit |-> edit]
    /\ UNCHANGED <<moveLimitValue, movesLeft, strategies, originalStrategies,
                   applied, sinceLimit, turnAtLimit>>

remainingMoves == movesLeft

\* Mutant: the remaining-move counter is not reset with the limit.
setMoveLimit_KeepsCounter(limit) ==
    /\ moveLimitValue' = limit
    /\ lastCall' = [op |-> "setMoveLimit", limit |-> limit]
    /\ sinceLimit' = 0
    /\ turnAtLimit' = state.turn
    /\ UNCHANGED <<state, movesLeft, strategies, originalStrategies, applied,
                   returned>>

\* Engine.setMoveLimit(limit)
setMoveLimit(limit) ==
    /\ moveLimitValue' = limit
    /\ movesLeft' = limit
    /\ lastCall' = [op |-> "setMoveLimit", limit |-> limit]
    /\ sinceLimit' = 0
    /\ turnAtLimit' = state.turn
    /\ UNCHANGED <<state, strategies, originalStrategies, applied, returned>>

\* Engine.resetMoveLimit()
resetMoveLimit ==
    /\ moveLimitValue' = 1
    /\ movesLeft' = 1
    /\ lastCall' = [op |-> "resetMoveLimit"]
    /\ sinceLimit' = 0
    /\ turnAtLimit' = state.turn
    /\ UNCHANGED <<state, strategies, originalStrategies, applied, returned>>

---------------------------------------------------------------------------
\* Inputs.

\* The moves handed to Engine.move are plain {from, to} objects, as the page
\* builds them. The board applies whatever it is given, so the set holds
\* ordinary moves (e2-e4, Bf1-c4, Ng1-f3), a move from a square that starts
\* empty (e4-e5), moves onto an occupied square (Ke1-g1, Rh1-f1) and a move
\* onto its own square (a2-a2).
Mv(fx, fy, tx, ty) == [from |-> Pos(fx, fy), to |-> Pos(tx, ty)]

MoveInputs ==
    { Mv("e", 2, "e", 4), Mv("e", 4, "e", 5), Mv("f", 1, "c", 4),
      Mv("g", 1, "f", 3), Mv("e", 1, "g", 1), Mv("h", 1, "f", 1),
      Mv("a", 2, "a", 2) }

\* Under the quota specification: one move from an occupied square (the piece
\* shuttles e2-e4 only once) and one from a square that starts empty.
QuotaMoveInputs == { Mv("e", 2, "e", 4), Mv("e", 4, "e", 5) }

\* Under the rule-set specification: pawn and knight moves of both colors.
RuleMoveInputs ==
    { Mv("e", 2, "e", 4), Mv("d", 7, "d", 5), Mv("g", 1, "f", 3),
      Mv("e", 4, "d", 5) }

\* Under the query specification: two pawn moves that bring pawns into
\* contact (e2-e4, d7-d5), the white king leaving and regaining its square
\* (e1-e2, e2-e1), and the kingside rook leaving its corner (h1-h3).
QueryMoveInputs ==
    { Mv("e", 2, "e", 4), Mv("d", 7, "d", 5), Mv("e", 1, "e", 2),
      Mv("e", 2, "e", 1), Mv("h", 1, "h", 3) }

\* Under the strategy specification: moves that open lines and bring pieces of
\* both colors into contact (e2-e4, e7-e5, d7-d5, Bf1-c4, Bc4xf7, Ng1-f3), a
\* move onto its own square, which removes the a2 pawn, and a pawn set on the
\* last rank (h2-h8).
StrategyMoveInputs ==
    { Mv("e", 2, "e", 4), Mv("e", 7, "e", 5), Mv("d", 7, "d", 5),
      Mv("f", 1, "c", 4), Mv("c", 4, "f", 7), Mv("g", 1, "f", 3),
      Mv("a", 2, "a", 2), Mv("h", 2, "h", 8) }

\* Under the copy specification: the moves, and the writes a caller makes to a
\* returned BoardState.
CopyMoveInputs == { Mv("e", 2, "e", 4), Mv("d", 7, "d", 5) }

CopyEdits ==
    { [kind |-> "setSquare", row |-> 6, col |-> 4,
       piece |-> Piece("queen", "white", TRUE)],
      [kind |-> "setSquare", row |-> 4, col |-> 4, piece |-> EmptyObj],
      [kind |-> "pushHistory", move |-> Mv("a", 1, "a", 8)],
      [kind |-> "popHistory"],
      [kind |-> "pushCaptured", piece |-> Piece("king", "black", FALSE)],
      [kind |-> "popCaptured"] }

\* The squares getLegalMoves is asked about.
QueryPositions ==
    { Pos("e", 1), Pos("e", 2), Pos("e", 4), Pos("d", 5), Pos("d", 7),
      Pos("h", 1), Pos("h", 3), Pos("g", 1), Pos("d", 1), Pos("e", 8),
      Pos("f", 1), Pos("e", 3) }

\* The moves validateCastling is asked about: castling-tagged king moves of
\* both colors to g, c and another file, a castling-tagged move of a rook, and
\* an untagged king move.
Castle(fx, fy, tx, ty) ==
    [from |-> Pos(fx, fy), to |-> Pos(tx, ty), special |-> "castling"]

CastlingInputs ==
    { Castle("e", 1, "g", 1), Castle("e", 1, "c", 1), Castle("e", 8, "g", 8),
      Castle("e", 8, "c", 8), Castle("e", 1, "f", 1), Castle("h", 1, "g", 1),
      Castle("e", 4, "g", 4), Mv("e", 1, "g", 1) }

LimitInputs == 0..MaxLimit

OverrideTypes == {"pawn", "knight"}
OverrideStrategies == {"SuperPawnStrategy", "QueenStrategy"}

---------------------------------------------------------------------------
\* The engine after construction, and the specifications.

Init ==
    /\ state = createInitialBoard
    /\ moveLimitValue = 1
    /\ movesLeft = 1
    /\ originalStrategies = StandardStrategies
    /\ strategies = StandardStrategies
    /\ lastCall = [op |-> "constructor"]
    /\ applied = 0
    /\ sinceLimit = 0
    /\ turnAtLimit = "white"
    /\ returned = NoCopy

MoveAct ==
    /\ Len(state.moveHistory) < MaxMoves
    /\ \E move \in MoveInputs : Move(move)

QuotaMoveAct ==
    /\ Len(state.moveHistory) < MaxQuotaMoves
    /\ \E move \in QuotaMoveInputs : Move(move)

RuleMoveAct ==
    /\ Len(state.moveHistory) < MaxRuleMoves
    /\ \E move \in RuleMoveInputs : Move(move)

SetMoveLimitAct == \E limit \in LimitInputs : setMoveLimit(limit)

ResetMoveLimitAct == resetMoveLimit

OverrideStrategyAct ==
    \E type \in OverrideTypes, strategy \in OverrideStrategies :
        overrideMovementRule(type, strategy)

RestoreStrategyAct == \E type \in OverrideTypes : restoreMovementRule(type)

BoardMoveAct ==
    /\ Len(state.moveHistory) < MaxBoardMoves
    /\ \E move \in MoveInputs : Move(move)

QueryMoveAct ==
    /\ Len(state.moveHistory) < MaxQueryMoves
    /\ \E move \in QueryMoveInputs : Move(move)

StrategyMoveAct ==
    /\ Len(state.moveHistory) < MaxStrategyMoves
    /\ \E move \in StrategyMoveInputs : Move(move)

CopyMoveAct ==
    /\ Len(state.moveHistory) < MaxCopyMoves
    /\ \E move \in CopyMoveInputs : Move(move)

GetBoardStateAct == getBoardStateCall

EditCopyAct ==
    /\ returned.edits < MaxCopyEdits
    /\ \E edit \in CopyEdits : editCopy(edit)

SuperPawnAct == overrideMovementRule("pawn", "SuperPawnStrategy")

GetLegalMovesAct == \E position \in QueryPositions : getLegalMovesCall(position)

ValidateCastlingAct == \E move \in CastlingInputs : validateCastlingCall(move)

\* Board and engine: arbitrary moves interleaved with quota changes.
Next == MoveAct \/ SetMoveLimitAct \/ ResetMoveLimitAct

Spec == Init /\ [][Next]_vars

\* The board alone: moves under the default quota.
NextBoard == BoardMoveAct

SpecBoard == Init /\ [][NextBoard]_vars

\* The move quota over longer runs of moves.
NextQuota == QuotaMoveAct \/ SetMoveLimitAct \/ ResetMoveLimitAct

SpecQuota == Init /\ [][NextQuota]_vars

\* The default quota: the limit is only ever configured to 0 or 1.
SetSingleLimitAct == \E limit \in 0..1 : setMoveLimit(limit)

NextSingle == QuotaMoveAct \/ SetSingleLimitAct \/ ResetMoveLimitAct

SpecSingle == Init /\ [][NextSingle]_vars

\* Positive quotas: the limit is only ever configured to 1 or more.
SetPositiveLimitAct == \E limit \in 1..MaxLimit : setMoveLimit(limit)

NextPositive == QuotaMoveAct \/ SetPositiveLimitAct \/ ResetMoveLimitAct

SpecPositive == Init /\ [][NextPositive]_vars

\* The rule set: moves interleaved with overriding and restoring bindings.
NextRules == RuleMoveAct \/ OverrideStrategyAct \/ RestoreStrategyAct

SpecRules == Init /\ [][NextRules]_vars

\* Queries: moves and the extended-pawn override interleaved with calls of
\* getLegalMoves and validateCastling.
NextQueries ==
    QueryMoveAct \/ SuperPawnAct \/ GetLegalMovesAct \/ ValidateCastlingAct

SpecQueries == Init /\ [][NextQueries]_vars

\* Strategies: the positions reached by the strategy moves.
NextStrategies == StrategyMoveAct

SpecStrategies == Init /\ [][NextStrategies]_vars

\* Copies: moves interleaved with getBoardState and writes to its result.
NextCopy == CopyMoveAct \/ GetBoardStateAct \/ EditCopyAct

SpecCopy == Init /\ [][NextCopy]_vars

---------------------------------------------------------------------------
\* Vocabulary of the properties.

Occupied(piece) == "type" \in DOMAIN piece
Opponent(color) == IF color = "white" THEN "black" ELSE "white"
Range(seq) == {seq[i] : i \in DOMAIN seq}

\* The step is a call of Engine.move; its argument; Board.move returned true.
MoveStep == lastCall'.op = "move"
MoveArg == lastCall'.move
AppliedStep == MoveStep /\ lastCall'.moved

---------------------------------------------------------------------------
\* C1: a move whose source square holds no piece fails: Board.move returns
\* false, and grid, turn, history, captured list and the remaining-move counter
\* are unchanged.
C1_EmptySourceMoveFails ==
    [][ (MoveStep /\ ~Occupied(getPiece(state, MoveArg.from)))
          => (/\ lastCall'.moved = FALSE
              /\ state' = state
              /\ remainingMoves' = remainingMoves) ]_vars

\* C2: with a quota n >= 2, after k applied moves since setMoveLimit(n) the
\* counter reads n - (k mod n) (n, n-1, ..., 1, n, ...) and the turn has passed
\* to the other color exactly floor(k / n) times.
C2_QuotaPattern ==
    moveLimitValue >= 2 =>
        /\ remainingMoves = moveLimitValue - (sinceLimit % moveLimitValue)
        /\ state.turn = IF (sinceLimit \div moveLimitValue) % 2 = 0
                        THEN turnAtLimit
                        ELSE Opponent(turnAtLimit)

\* Two full turns of three moves each after setMoveLimit(3).
C2_Witness ==
    /\ moveLimitValue = 3
    /\ sinceLimit = 6
    /\ remainingMoves = 3
    /\ state.turn = turnAtLimit

\* C3: while the quota is <= 1, every applied move passes the turn to the
\* opponent, so after k applied moves the turn is white iff k is even.
C3_SingleMoveFlipsTurn ==
    /\ [](moveLimitValue <= 1 /\ (state.turn = "white" <=> applied % 2 = 0))
    /\ [][ AppliedStep => state'.turn = Opponent(state.turn) ]_vars

C3_Witness ==
    /\ applied = 3
    /\ state.turn = "black"
    /\ moveLimitValue = 0

\* C4: a move from an occupied square to another square puts the source's
\* piece (same kind and color, hasMoved = true) on the destination, empties the
\* source and leaves the other 62 squares as they were.
C4_MoveRelocatesOnePiece ==
    [][ (/\ AppliedStep
         /\ Occupied(getPiece(state, MoveArg.from))
         /\ MoveArg.from # MoveArg.to)
          => LET src == getPiece(state, MoveArg.from)
             IN  /\ getPiece(state', MoveArg.to) =
                        Piece(src.type, src.color, TRUE)
                 /\ getPiece(state', MoveArg.from) = EmptyObj
                 /\ \A position \in Position \ {MoveArg.from, MoveArg.to} :
                        getPiece(state', position) = getPiece(state, position) ]_vars

C4_Witness ==
    /\ lastCall.op = "move"
    /\ lastCall.move = Mv("f", 1, "c", 4)
    /\ getPiece(state, Pos("c", 4)) = Piece("bishop", "white", TRUE)
    /\ getPiece(state, Pos("f", 1)) = EmptyObj

\* C5: the captured list grows by one exactly when the destination square is
\* occupied, and is unchanged on a move onto an empty square; every entry of the
\* list is a piece with a kind and a color.
C5_CaptureIffDestinationOccupied ==
    [][ /\ AppliedStep =>
             Len(state'.capturedPieces) =
                 Len(state.capturedPieces) +
                 (IF Occupied(getPiece(state, MoveArg.to)) THEN 1 ELSE 0)
        /\ \A i \in DOMAIN state'.capturedPieces :
             {"type", "color"} \subseteq DOMAIN state'.capturedPieces[i] ]_vars

\* C6: every square whose piece has no kind is a true empty square: it
\* carries neither a color nor a hasMoved value.
C6_NoKindMeansEmpty ==
    \A position \in Position :
        ~Occupied(getPiece(state, position)) =>
            DOMAIN getPiece(state, position) = {}

HomeRank(piece) == IF Get(piece, "color") = "white" THEN 1 ELSE 8
FileIndex(position) == posToIndices(position).col

UnmovedKingAt(s, position) ==
    LET piece == getPiece(s, position)
    IN  Get(piece, "type") = "king" /\ Get(piece, "hasMoved") = FALSE

UnmovedRookAt(s, position) ==
    LET piece == getPiece(s, position)
    IN  Get(piece, "type") = "rook" /\ Get(piece, "hasMoved") = FALSE

\* Every square strictly between file indices c1 and c2 of rank y is empty.
EmptyBetween(s, y, c1, c2) ==
    \A col \in 0..7 :
        ((c1 < col /\ col < c2) \/ (c2 < col /\ col < c1))
            => ~Occupied(getPiece(s, indicesToPosition(8 - y, col)))

CastlingConditions(s, position, colRook) ==
    LET y == HomeRank(getPiece(s, position))
    IN  /\ UnmovedKingAt(s, position)
        /\ UnmovedRookAt(s, indicesToPosition(8 - y, colRook))
        /\ EmptyBetween(s, y, FileIndex(position), colRook)

CastlingMove(s, position, colRook) ==
    LET y == HomeRank(getPiece(s, position))
        colTo == IF colRook > FileIndex(position)
                 THEN FileIndex(position) + 2
                 ELSE FileIndex(position) - 2
    IN  [from |-> position, to |-> indicesToPosition(8 - y, colTo),
         special |-> "castling"]

\* C8: whenever an unmoved king, an unmoved rook on the h-file (a-file) of
\* its home rank and empty squares between them are on the board,
\* getSpecialMoves returns the castling move two files toward that rook.
C8_CastlingOfferedWhenConditionsHold ==
    \A position \in Position : \A colRook \in {0, 7} :
        CastlingConditions(state, position, colRook) =>
            CastlingMove(state, position, colRook)
                \in Range(getSpecialMoves(state, position))

\* C9: every castling move returned by getLegalMoves (getSpecialMoves
\* included) comes with an unmoved king on the queried square, an unmoved rook
\* on the side it castles to and empty squares between them; in particular none
\* is returned once the king or that rook has moved.
C9_CastlingOnlyWhenUnmovedAndClear ==
    \A position \in Position :
        \A m \in Range(getLegalMoves(state, strategies, position))
                 \cup Range(getSpecialMoves(state, position)) :
            Get(m, "special") = "castling" =>
                CastlingConditions(state, position,
                                   IF m.to.x = "g" THEN 7 ELSE 0)

\* The king has just moved next to its unmoved rook, and no castling is offered.
C9_Witness ==
    /\ lastCall.op = "move"
    /\ lastCall.move = Mv("e", 1, "g", 1)
    /\ getPiece(state, Pos("g", 1)) = Piece("king", "white", TRUE)
    /\ UnmovedRookAt(state, Pos("h", 1))
    /\ getLegalMoves(state, strategies, Pos("g", 1)) # <<>>
    /\ getSpecialMoves(state, Pos("g", 1)) = <<>>

\* getLegalMoves with the standard strategy of every kind.
StandardLegalMoves(s, position) == getLegalMoves(s, StandardStrategies, position)

\* C10: the standard bindings are kept; restoreStrategy(K) rebinds K to its
\* standard strategy, so getLegalMoves for pieces of kind K is what it is with
\* no override; overrideStrategy(K, s) binds s to K at once (getLegalMoves for
\* kind K uses s) and changes the binding of no other kind.
C10_OverrideRestoreRoundTrip ==
    /\ [](/\ originalStrategies = StandardStrategies
          /\ lastCall.op = "restoreStrategy" =>
               /\ getMovementStrategy(strategies, lastCall.type) =
                      StandardStrategies[lastCall.type]
               /\ \A position \in Position :
                      Get(getPiece(state, position), "type") = lastCall.type =>
                          getLegalMoves(state, strategies, position) =
                              StandardLegalMoves(state, position))
    /\ [][ lastCall'.op = "overrideStrategy" =>
             /\ getMovementStrategy(strategies', lastCall'.type) = lastCall'.strategy
             /\ \A type \in PieceType \ {lastCall'.type} :
                    strategies'[type] = strategies[type]
             /\ \A position \in Position :
                    LET piece == getPiece(state', position)
                    IN  Get(piece, "type") = lastCall'.type =>
                            getLegalMoves(state', strategies', position) =
                                getPossibleMoves(lastCall'.strategy, piece,
                                                 position, state')
                                \o getSpecialMoves(state', position) ]_vars

\* A pawn binding overridden and restored while the knight's override stays.
C10_Witness ==
    /\ lastCall.op = "restoreStrategy"
    /\ lastCall.type = "pawn"
    /\ lastCall.replaced = "QueenStrategy"
    /\ strategies["pawn"] = "PawnStrategy"
    /\ strategies["knight"] = "SuperPawnStrategy"
    /\ Len(state.moveHistory) = 1
    /\ getLegalMoves(state, strategies, Pos("e", 2)) #
           getPossibleMoves("QueenStrategy", getPiece(state, Pos("e", 2)),
                            Pos("e", 2), state)

\* C11: a call of getLegalMoves returns the empty sequence for a square with
\* no piece, and otherwise the bound strategy's moves followed by the special
\* moves, whoever's turn it is.
C11_LegalMovesAreBasicThenSpecial ==
    lastCall.op = "getLegalMoves" =>
        LET position == lastCall.position
            piece == getPiece(state, position)
            legal == lastCall.result
        IN  /\ ~Occupied(piece) => legal = <<>>
            /\ Occupied(piece) =>
                 LET basic == getPossibleMoves(strategies[piece.type], piece,
                                               position, state)
                     special == getSpecialMoves(state, position)
                 IN  /\ Len(legal) = Len(basic) + Len(special)
                     /\ SubSeq(legal, 1, Len(basic)) = basic
                     /\ SubSeq(legal, Len(basic) + 1, Len(legal)) = special
            /\ \A color \in PlayerColor :
                 getLegalMoves([state EXCEPT !.turn = color], strategies,
                               position) = legal

\* The e2 pawn queried under the extended-pawn binding while it is black's turn:
\* e3, e4 and the three-square advance e5.
C11_Witness ==
    /\ lastCall.op = "getLegalMoves"
    /\ lastCall.position = Pos("e", 2)
    /\ strategies["pawn"] = "SuperPawnStrategy"
    /\ state.turn = "black"
    /\ lastCall.result = <<Mv("e", 2, "e", 3), Mv("e", 2, "e", 4),
                           Mv("e", 2, "e", 5)>>

---------------------------------------------------------------------------
\* Board coordinates: file index f in 0..7 (a..h) and rank y in 1..8.

OnBoard(f, y) == f \in 0..7 /\ y \in 1..8
Sq(f, y) == Pos(Files[f + 1], y)
Free(f, y) == OnBoard(f, y) /\ ~Occupied(getPiece(state, Sq(f, y)))
Foe(f, y, color) ==
    /\ OnBoard(f, y)
    /\ Occupied(getPiece(state, Sq(f, y)))
    /\ getPiece(state, Sq(f, y)).color # color
Dests(moves) == {m.to : m \in Range(moves)}

\* C12: a pawn on its starting row with both squares ahead empty has the one-
\* and two-square advances; elsewhere it has at most one advance; it has none
\* when the square ahead is occupied or off the board; a diagonal move is
\* emitted only onto a forward-diagonal square holding an opponent piece. From
\* the initial board e2 yields e3 and e4, and a pawn moved to e4 has no
\* two-square advance.
C12_PawnCandidates ==
    /\ \A position \in Position :
         LET piece == getPiece(state, position)
         IN  Get(piece, "type") = "pawn" =>
               LET moves == PawnMoves(piece, position, state)
                   f == FileIndex(position)
                   y == position.y
                   up == IF piece.color = "white" THEN 1 ELSE -1
                   onStart == posToIndices(position).row =
                                  (IF piece.color = "white" THEN 6 ELSE 1)
                   forward == SelectSeq(moves, LAMBDA m : m.to.x = position.x)
                   diagonal == SelectSeq(moves, LAMBDA m : m.to.x # position.x)
               IN  /\ (onStart /\ Free(f, y + up) /\ Free(f, y + 2 * up)) =>
                         forward = << [from |-> position, to |-> Sq(f, y + up)],
                                      [from |-> position, to |-> Sq(f, y + 2 * up)] >>
                   /\ ~onStart => Len(forward) <= 1
                   /\ ~Free(f, y + up) => forward = <<>>
                   /\ \A m \in Range(diagonal) :
                         /\ m.to.y = y + up
                         /\ FileIndex(m.to) \in {f - 1, f + 1}
                         /\ Foe(FileIndex(m.to), y + up, piece.color)
    /\ lastCall.op = "constructor" =>
         PawnMoves(getPiece(state, Pos("e", 2)), Pos("e", 2), state) =
             <<Mv("e", 2, "e", 3), Mv("e", 2, "e", 4)>>
    /\ getPiece(state, Pos("e", 4)) = Piece("pawn", "white", TRUE) =>
         Pos("e", 6) \notin
             Dests(PawnMoves(getPiece(state, Pos("e", 4)), Pos("e", 4), state))

\* The pawn moved to e4 facing a black pawn on d5: the advance e5 and the
\* capture on d5, no advance to e6; the f2 pawn stands behind the knight on f3.
C12_Witness ==
    /\ getPiece(state, Pos("e", 4)) = Piece("pawn", "white", TRUE)
    /\ PawnMoves(getPiece(state, Pos("e", 4)), Pos("e", 4), state) =
           << Mv("e", 4, "e", 5),
              [from |-> Pos("e", 4), to |-> Pos("d", 5),
               capture |-> Piece("pawn", "black", TRUE)] >>
    /\ getPiece(state, Pos("f", 3)) = Piece("knight", "white", TRUE)
    /\ PawnMoves(getPiece(state, Pos("f", 2)), Pos("f", 2), state) = <<>>

\* The destinations along one ray from (f, y): the free squares next to the
\* origin, and the first occupied square if it holds a piece of the other color.
RayDests(f, y, df, dy, color) ==
    { Sq(f + k * df, y + k * dy) :
        k \in { k \in 1..7 :
                  /\ OnBoard(f + k * df, y + k * dy)
                  /\ \A j \in 1..(k - 1) : Free(f + j * df, y + j * dy)
                  /\ \/ Free(f + k * df, y + k * dy)
                     \/ Foe(f + k * df, y + k * dy, color) } }

Straight == {<<0, 1>>, <<0, -1>>, <<1, 0>>, <<-1, 0>>}
Diagonal == {<<1, 1>>, <<1, -1>>, <<-1, 1>>, <<-1, -1>>}

LineDests(position, rays, color) ==
    UNION { RayDests(FileIndex(position), position.y, d[1], d[2], color) :
              d \in rays }

RaysOf(type) ==
    CASE type = "rook" -> Straight
      [] type = "bishop" -> Diagonal
      [] type = "queen" -> Straight \cup Diagonal

\* C13: for rook, bishop and queen the destinations along each ray are the
\* consecutive empty squares next to the origin, then the first occupied square
\* iff it holds an opponent piece, as a capture, and nothing beyond it; the
\* queen's output is the rook's moves followed by the bishop's, without
\* duplicates.
C13_SlidersNeverJump ==
    \A position \in Position :
        LET piece == getPiece(state, position)
        IN  Get(piece, "type") \in {"rook", "bishop", "queen"} =>
              LET moves == getPossibleMoves(StandardStrategies[piece.type],
                                            piece, position, state)
                  straight == LineDests(position, Straight, piece.color)
              IN  /\ Dests(moves) = LineDests(position, RaysOf(piece.type),
                                              piece.color)
                  /\ Len(moves) = Cardinality(Dests(moves))
                  /\ \A m \in Range(moves) :
                        /\ m.from = position
                        /\ IF Free(FileIndex(m.to), m.to.y)
                           THEN "capture" \notin DOMAIN m
                           ELSE /\ "capture" \in DOMAIN m
                                /\ m.capture = getPiece(state, m.to)
                                /\ m.capture.color = Opponent(piece.color)
                  /\ piece.type = "queen" =>
                        /\ moves = RookMoves(piece, position, state) \o
                                   BishopMoves(piece, position, state)
                        /\ \A i \in DOMAIN moves :
                              IF i <= Cardinality(straight)
                              THEN moves[i].to \in straight
                              ELSE moves[i].to \notin straight

\* The a-file opened and the e-pawn advanced: the a1 rook runs up to the capture
\* on a7 and goes no further, the queen has the diagonal e2-h5.
C13_Witness ==
    /\ RookMoves(getPiece(state, Pos("a", 1)), Pos("a", 1), state) =
           << Mv("a", 1, "a", 2), Mv("a", 1, "a", 3), Mv("a", 1, "a", 4),
              Mv("a", 1, "a", 5), Mv("a", 1, "a", 6),
              [from |-> Pos("a", 1), to |-> Pos("a", 7),
               capture |-> Piece("pawn", "black", FALSE)] >>
    /\ getPiece(state, Pos("d", 1)) = Piece("queen", "white", FALSE)
    /\ QueenMoves(getPiece(state, Pos("d", 1)), Pos("d", 1), state) =
           << Mv("d", 1, "e", 2), Mv("d", 1, "f", 3), Mv("d", 1, "g", 4),
              Mv("d", 1, "h", 5) >>

Abs(n) == IF n < 0 THEN -n ELSE n

\* The eight fixed offsets of the knight and of the king, as (file, rank) steps.
OffsetsOf(type) ==
    IF type = "knight"
    THEN { d \in (-2..2) \X (-2..2) :
             Abs(d[1]) >= 1 /\ Abs(d[2]) >= 1 /\ Abs(d[1]) + Abs(d[2]) = 3 }
    ELSE ((-1..1) \X (-1..1)) \ {<<0, 0>>}

\* C14: the knight and king strategies emit at most 8 candidates; the
\* destinations are exactly the in-bounds squares at one of the piece's eight
\* offsets that are empty or hold an opponent piece, so no friendly-occupied
\* square is among them.
C14_KnightAndKingSteps ==
    \A position \in Position :
        LET piece == getPiece(state, position)
        IN  Get(piece, "type") \in {"knight", "king"} =>
              LET moves == getPossibleMoves(StandardStrategies[piece.type],
                                            piece, position, state)
                  f == FileIndex(position)
                  y == position.y
              IN  /\ Len(moves) <= 8
                  /\ Cardinality(OffsetsOf(piece.type)) = 8
                  /\ Dests(moves) =
                        { Sq(f + d[1], y + d[2]) :
                            d \in { d \in OffsetsOf(piece.type) :
                                      \/ Free(f + d[1], y + d[2])
                                      \/ Foe(f + d[1], y + d[2], piece.color) } }
                  /\ \A m \in Range(moves) :
                        /\ m.from = position
                        /\ OnBoard(FileIndex(m.to), m.to.y)
                        /\ <<FileIndex(m.to) - f, m.to.y - y>> \in
                               OffsetsOf(piece.type)
                        /\ \/ Free(FileIndex(m.to), m.to.y)
                           \/ Foe(FileIndex(m.to), m.to.y, piece.color)

\* The white bishop has taken on f7: the black king, hemmed in by its own
\* pieces, may only capture it; the g1 knight has f3 and h3 and not e2.
C14_Witness ==
    /\ KingMoves(getPiece(state, Pos("e", 8)), Pos("e", 8), state) =
           << [from |-> Pos("e", 8), to |-> Pos("f", 7),
               capture |-> Piece("bishop", "white", TRUE)] >>
    /\ KnightMoves(getPiece(state, Pos("g", 1)), Pos("g", 1), state) =
           << Mv("g", 1, "f", 3), Mv("g", 1, "h", 3) >>

\* The standard chess layout, by file and rank.
StandardBackRankKind(x) ==
    CASE x \in {"a", "h"} -> "rook"
      [] x \in {"b", "g"} -> "knight"
      [] x \in {"c", "f"} -> "bishop"
      [] x = "d" -> "queen"
      [] x = "e" -> "king"

StandardPieceOn(position) ==
    CASE position.y = 1 -> Piece(StandardBackRankKind(position.x), "white", FALSE)
      [] position.y = 2 -> Piece("pawn", "white", FALSE)
      [] position.y = 7 -> Piece("pawn", "black", FALSE)
      [] position.y = 8 -> Piece(StandardBackRankKind(position.x), "black", FALSE)
      [] OTHER -> EmptyObj

\* C15: at construction getPiece returns, for each of the 64 positions, the
\* standard unmoved back-rank piece on ranks 1 and 8, an unmoved pawn on ranks
\* 2 and 7 and the empty piece on ranks 3-6; the turn is white and the history
\* and the captured list are empty.
C15_InitialLayout ==
    lastCall.op = "constructor" =>
        /\ \A position \in Position :
              getPiece(state, position) = StandardPieceOn(position)
        /\ getCurrentTurn(state) = "white"
        /\ state.moveHistory = <<>>
        /\ state.capturedPieces = <<>>

C15_Witness ==
    /\ lastCall.op = "constructor"
    /\ getPiece(state, Pos("e", 1)) = Piece("king", "white", FALSE)
    /\ getPiece(state, Pos("d", 8)) = Piece("queen", "black", FALSE)
    /\ getPiece(state, Pos("e", 4)) = EmptyObj

\* C16: validateCastling returns true exactly when the move is tagged castling,
\* its source square holds a king with hasMoved = false, and the h-file corner
\* of the king's home rank (destination file g) or the a-file corner (any other
\* destination file) holds a rook with hasMoved = false; the squares between
\* king and rook play no part.
C16_ValidateCastling ==
    lastCall.op = "validateCastling" =>
        LET move == lastCall.move
            king == getPiece(state, move.from)
            corner == Pos(IF move.to.x = "g" THEN "h" ELSE "a", HomeRank(king))
        IN  lastCall.result <=>
                /\ "special" \in DOMAIN move
                /\ move.special = "castling"
                /\ UnmovedKingAt(state, move.from)
                /\ UnmovedRookAt(state, corner)

\* On the initial board, with f1 and g1 occupied, the castling move e1-g1 is
\* accepted.
C16_Witness ==
    /\ lastCall.op = "validateCastling"
    /\ lastCall.move = Castle("e", 1, "g", 1)
    /\ lastCall.result = TRUE
    /\ Occupied(getPiece(state, Pos("f", 1)))
    /\ Occupied(getPiece(state, Pos("g", 1)))

BoardValue(b) ==
    [grid |-> b.grid, turn |-> b.turn, moveHistory |-> b.moveHistory,
     capturedPieces |-> b.capturedPieces]

\* C17: getBoardState returns the board's current grid, turn, history and
\* captured list; replacing a square of the returned grid, or appending to or
\* removing from the returned history or captured list, leaves the board's
\* grid, history, captured list and turn unchanged; a later move leaves a
\* previously returned copy unchanged.
C17_BoardStateIsIndependentCopy ==
    /\ [](lastCall.op = "getBoardState" =>
             BoardValue(returned.copy) = BoardValue(state))
    /\ [][ lastCall'.op = "editCopy" => state' = state ]_vars
    /\ [][ (lastCall'.op = "move" /\ HasCopy(returned)) =>
             returned' = returned ]_vars

\* A copy taken on the initial board, written to twice, and a move made after:
\* the copy shows the writes and not the move, the board the move and not the
\* writes.
C17_Witness ==
    /\ HasCopy(returned)
    /\ returned.edits = 2
    /\ lastCall.op = "move"
    /\ returned.copy.moveHistory = <<Mv("a", 1, "a", 8)>>
    /\ state.moveHistory = <<Mv("e", 2, "e", 4)>>
    /\ returned.copy.grid[6][4] = Piece("queen", "white", TRUE)
    /\ state.grid[6][4] = EmptyObj

\* C19: every piece with hasMoved = false stands on the square where
\* createInitialBoard placed it; so an unmoved king is on the e-file of its
\* home rank and an unmoved rook on the a- or h-file of its home rank.
C19_UnmovedPiecesAreAtHome ==
    \A position \in Position :
        LET piece == getPiece(state, position)
        IN  /\ (Occupied(piece) /\ Get(piece, "hasMoved") = FALSE) =>
                  piece = StandardPieceOn(position)
            /\ UnmovedKingAt(state, position) =>
                  position = Pos("e", HomeRank(piece))
            /\ UnmovedRookAt(state, position) =>
                  position \in {Pos("a", HomeRank(piece)), Pos("h", HomeRank(piece))}

\* The white king has gone to g1 and the h1 rook to f1, both marked as moved;
\* the a1 rook and the black king are unmoved and at home.
C19_Witness ==
    /\ getPiece(state, Pos("g", 1)) = Piece("king", "white", TRUE)
    /\ getPiece(state, Pos("f", 1)) = Piece("rook", "white", TRUE)
    /\ UnmovedRookAt(state, Pos("a", 1))
    /\ UnmovedKingAt(state, Pos("e", 8))

LimitStep == lastCall'.op \in {"setMoveLimit", "resetMoveLimit"}

====
